---- MODULE Spec2Model ----
(***************************************************************************)
(* Model of ds_arpes_plugin.ARPES_Plugin: the plugin object (D, filename)  *)
(* together with the parts of the PIT host it reads and writes             *)
(* (data_handler, main_window).  Every public method is one action.  The   *)
(* arpys library (dl.load_data, pp.angle_to_k, pp.normalize_per_segment)   *)
(* and the host are external: their results are kept as symbolic terms     *)
(* that record which function was applied to which inputs, so that two     *)
(* results are equal exactly when they were computed from the same inputs. *)
(* Optional values (None / absent attribute) are sequences of length <= 1. *)
(***************************************************************************)
EXTENDS Integers, Sequences, FiniteSets, TLC

VARIABLES D, filename, dh, mw, last

vars == <<D, filename, dh, mw, last>>

(* ------------------------------ bounds -------------------------------- *)

\* Longest chain of display normalisations kept on one image.
MaxNorm == 1

(* ------------------------- program constants -------------------------- *)

NDIM == 3
DefaultWorkFunc == 4
DefaultDim == 0

MissingFilename == "<missing filename>"
\* The text of _message (its backquotes around load_data() left out).
message == "No ARPES data has been found. Load data with load_data()."

None == <<>>
Some(x) == <<x>>

(* ------------------------- external library --------------------------- *)

\* Files the library can read, and one it cannot.
GoodFiles == {"a.ibw", "b.ibw"}
BadFiles == {"bad.txt"}
Files == GoodFiles \cup BadFiles

\* A 1-D coordinate array as it comes out of a file: an angle scale.
\* Arrays of numbers are written as the expression that computes them.
Coord(src, name) == src \o ":" \o name

\* np.array([0]), the placeholder for a fixed beta.
ZeroArray == "np.array([0])"

\* A 2-D image or slice: where it was cut from and the normalisations
\* applied to it, oldest first.
Image(src, part) == [src |-> src, part |-> part, norm |-> <<>>]

Depth(src) == IF src = "a.ibw" THEN 2 ELSE 3

Volume(src) == [src |-> src, slices |-> [z \in 1..Depth(src) |-> Image(src, ToString(z))]]

Hv(src) == IF src = "a.ibw" THEN 21 ELSE 40

\* dl.load_data(filename): the Namespace the library builds for a file.
Dataset(f) ==
    [data |-> Volume(f), xscale |-> Coord(f, "x"), yscale |-> Coord(f, "y"),
     zscale |-> Coord(f, "z"), hv |-> Hv(f)]

dl_load_ok(f) == f \in GoodFiles

\* pp.angle_to_k: two meshes of shape (len(alpha), len(beta)).
angle_to_k(alpha, beta, hv, dalpha, dbeta, orientation, work_func) ==
    LET args == alpha \o ", " \o beta \o ", hv=" \o ToString(hv)
                \o ", dalpha=" \o ToString(dalpha)
                \o ", dbeta=" \o ToString(dbeta)
                \o ", " \o orientation
                \o ", work_func=" \o ToString(work_func)
    IN  [KX |-> "KX(" \o args \o ")", KY |-> "KY(" \o args \o ")"]

\* M /= (np.pi/units): every element divided by pi/units.
DivByPiOver(M, units) == "(" \o M \o ")/(pi/" \o ToString(units) \o ")"

\* KY[:,0] and KX[0]: one column, one row of a mesh.
Column0(M) == M \o "[:,0]"
Row0(M) == M \o "[0]"

\* pp.normalize_per_segment(data, dim) on one 2-D array.
pp_normalize_per_segment(img, dim) == [img EXCEPT !.norm = Append(@, dim)]

(* ------------------------------- host --------------------------------- *)

\* The host starts with its own example data, which is not ARPES data.
HostAxes(src) == [i \in 0..(NDIM - 1) |->
                    Coord(src, IF i = 0 THEN "z" ELSE IF i = 1 THEN "y" ELSE "x")]

\* np.roll(axes, shift) on a triple: element i moves to i+shift.
np_roll(axes, shift) == [i \in 0..(NDIM - 1) |-> axes[(i - shift) % NDIM]]

\* data_handler.prepare_data(data, axes): takes over data and axes, keeps
\* a copy of the axes, clears the roll state and redraws.
prepare_data(st, data, axes) ==
    [st EXCEPT !.dh = [data |-> data, axes |-> axes, original_axes |-> axes,
                       roll |-> 0],
               !.mw = [@ EXCEPT !.main_image = Image(data.src, "main"),
                                !.cut_image = Image(data.src, "cut"),
                                !.shown_axes = axes]]

\* main_window.set_axes(): the plots take their ranges from the axes.
set_axes(st) == [st EXCEPT !.mw.shown_axes = st.dh.axes]

\* main_window.set_image(image, emit): shows an image in the main plot.
set_image(st, image, emit) ==
    [st EXCEPT !.mw.main_image = image,
               !.mw.cut_image = IF emit THEN Image(image.src, "cut") ELSE @]

\* main_window.cut_plot.set_image(image, lut=...).
cut_plot_set_image(st, image, lut) ==
    [st EXCEPT !.mw.cut_image = image, !.mw.cut_lut = lut]

\* data_handler.set_data(data): stores the volume and redraws.
set_data(st, data) ==
    [st EXCEPT !.dh.data = data,
               !.mw.main_image = Image(data.src, "main"),
               !.mw.cut_image = Image(data.src, "cut")]

State == [D |-> D, filename |-> filename, dh |-> dh, mw |-> mw]

InitState ==
    [D |-> None, filename |-> MissingFilename,
     dh |-> [data |-> Volume("pit"), axes |-> HostAxes("pit"),
             original_axes |-> HostAxes("pit"), roll |-> 0],
     mw |-> [main_image |-> Image("pit", "main"),
             cut_image |-> Image("pit", "cut"),
             shown_axes |-> HostAxes("pit"), lut |-> "lut", cut_lut |-> "none"]]

(* ------------------------------ plugin -------------------------------- *)

\* What one method call leaves behind: the state after it, how it ended
\* ("ok" or the name of the exception), the exception's message, the value
\* returned, and the library and host accesses it made, in order.
Return(st, ret, calls) ==
    [st |-> st, outcome |-> "ok", msg |-> "", ret |-> ret, calls |-> calls]

Raise(st, exc, msg, calls) ==
    [st |-> st, outcome |-> exc, msg |-> msg, ret |-> None, calls |-> calls]

\* load_data(filename); hostOk says whether the host's prepare_data accepts
\* the data or raises.
load_data(st, f, hostOk) ==
    IF ~dl_load_ok(f)
    THEN Raise(st, "LoadError", "", <<"dl.load_data">>)
    ELSE LET d == Dataset(f)
             s1 == [st EXCEPT !.D = Some(d)]
         IN  IF ~hostOk
             THEN Raise(s1, "HostError", "",
                        <<"dl.load_data", "data_handler.prepare_data">>)
             ELSE LET s2 == prepare_data(s1, d.data,
                                [i \in 0..(NDIM - 1) |->
                                    IF i = 0 THEN d.zscale
                                    ELSE IF i = 1 THEN d.yscale ELSE d.xscale])
                      s3 == [s2 EXCEPT !.filename = f]
                  IN  Return(s3, Some(d),
                             <<"dl.load_data", "data_handler.prepare_data">>)

\* Mutant of load: the result of load_data is not returned.
load_without_return(st, f, hostOk) ==
    [load_data(st, f, hostOk) EXCEPT !.ret = None]

load(st, f, hostOk) == load_data(st, f, hostOk)

open(st, f, hostOk) == load_data(st, f, hostOk)

\* Mutant of _check_for_arpes_data: the guard never raises.
check_never_raises(st) == TRUE

\* _check_for_arpes_data: TRUE when it returns, FALSE when it raises.
check_for_arpes_data(st) == st.D # None

\* Mutant of the index check: negative indices are refused.
PyIndexOK_nonnegative(k) == 0 <= k /\ k < NDIM

\* Indexing a length-3 array with k: allowed for -3 <= k <= 2, negative k
\* counting from the end.
PyIndexOK(k) == -NDIM <= k /\ k < NDIM
PyIndex(k) == k % NDIM

\* Mutant of the axis fetch: the angles are read from the current axes.
FetchAxes_current(st) == st.dh.axes

\* "Fetch correct axes": the original axes rotated by the roll state.
FetchAxes(st) == np_roll(st.dh.original_axes, -st.dh.roll)

\* Mutant of the units rescaling: only KX is divided.
ScaleUnits_KX_only(K, units) ==
    IF units # 0 THEN [KX |-> DivByPiOver(K.KX, units), KY |-> K.KY] ELSE K

\* The units rescaling of both meshes.
ScaleUnits(K, units) ==
    IF units # 0
    THEN [KX |-> DivByPiOver(K.KX, units), KY |-> DivByPiOver(K.KY, units)]
    ELSE K

\* Mutant of the update: the row of KX goes to alpha_axis and the column of
\* KY to beta_axis.
UpdatePIT_swapped(hostaxes, p, K) ==
    LET a1 == [hostaxes EXCEPT ![PyIndex(p.alpha_axis)] = Row0(K.KX)]
    IN  IF p.beta_axis # None
        THEN [a1 EXCEPT ![PyIndex(p.beta_axis[1])] = Column0(K.KY)]
        ELSE a1

\* "Update PIT": the converted arrays written into data_handler.axes.
UpdatePIT(hostaxes, p, K) ==
    LET a1 == [hostaxes EXCEPT ![PyIndex(p.alpha_axis)] = Column0(K.KY)]
    IN  IF p.beta_axis # None
        THEN [a1 EXCEPT ![PyIndex(p.beta_axis[1])] = Row0(K.KX)]
        ELSE a1

\* Mutant of the reset: the loop is missing.
ResetUnaffected_missing(hostaxes, p, axes) == hostaxes

\* "Reset all unaffected axes": i not in [alpha_axis, beta_axis].
ResetUnaffected(hostaxes, p, axes) ==
    [i \in 0..(NDIM - 1) |->
        IF i \notin ({p.alpha_axis} \cup {p.beta_axis[j] : j \in 1..Len(p.beta_axis)})
        THEN axes[i] ELSE hostaxes[i]]

a2k(st, p) ==
    IF ~check_for_arpes_data(st)
    THEN Raise(st, "DatasetError", message, <<>>)
    ELSE
    LET axes == FetchAxes(st)
        rd == <<"data_handler.original_axes", "data_handler._roll_state">>
    IN  IF ~PyIndexOK(p.alpha_axis) THEN Raise(st, "IndexError", "", rd)
        ELSE IF p.beta_axis # None /\ ~PyIndexOK(p.beta_axis[1])
        THEN Raise(st, "IndexError", "", rd)
        ELSE IF p.hv = None /\ st.D = None
        THEN Raise(st, "AttributeError", "", rd)
        ELSE
        LET alpha == axes[PyIndex(p.alpha_axis)]
            beta == IF p.beta_axis # None THEN axes[PyIndex(p.beta_axis[1])]
                    ELSE ZeroArray
            hv == IF p.hv = None THEN st.D[1].hv ELSE p.hv[1]
            K0 == angle_to_k(alpha, beta, hv, p.dalpha, p.dbeta,
                             p.orientation, p.work_func)
            K == ScaleUnits(K0, p.units)
            a2 == ResetUnaffected(UpdatePIT(st.dh.axes, p, K), p, axes)
            s1 == [st EXCEPT !.dh.axes = a2]
        IN  Return(set_axes(s1), Some(K),
                   rd \o <<"pp.angle_to_k", "data_handler.axes",
                           "main_window.set_axes">>)

\* Mutant of main_plot_normalize_per_segment: the image is pushed with the
\* update signal left on.
main_plot_normalize_emitting(st, dim) ==
    Return(set_image(st, pp_normalize_per_segment(st.mw.main_image, dim), TRUE),
           None,
           <<"main_window.main_plot.image_data", "pp.normalize_per_segment",
             "main_window.set_image(emit=True)">>)

main_plot_normalize_per_segment(st, dim) ==
    LET data == st.mw.main_image
        norm_data == pp_normalize_per_segment(data, dim)
    IN  Return(set_image(st, norm_data, FALSE), None,
               <<"main_window.main_plot.image_data", "pp.normalize_per_segment",
                 "main_window.set_image(emit=False)">>)

cut_plot_normalize_per_segment(st, dim) ==
    LET data == st.mw.cut_image
        norm_data == pp_normalize_per_segment(data, dim)
    IN  Return(cut_plot_set_image(st, norm_data, st.mw.lut), None,
               <<"main_window.cut_plot.image_data", "pp.normalize_per_segment",
                 "main_window.lut", "main_window.cut_plot.set_image">>)

\* iter(n) for the int n = data.shape[-1]: an int is not iterable, the
\* for statement raises TypeError and there is nothing to loop over.
py_iter_int(n) == None

normalize_per_segment(st, dim) ==
    LET data == st.dh.data
        zs == py_iter_int(Len(data.slices))
    IN  IF zs = None
        THEN Raise(st, "TypeError", "", <<"data_handler.get_data">>)
        ELSE LET done == [data EXCEPT !.slices =
                             [z \in 1..Len(data.slices) |->
                                 IF z - 1 \in zs[1]
                                 THEN pp_normalize_per_segment(data.slices[z], dim)
                                 ELSE data.slices[z]]]
             IN  Return(set_data(st, done), None,
                        <<"data_handler.get_data", "pp.normalize_per_segment",
                          "data_handler.set_data">>)

(* ------------------------------ inputs -------------------------------- *)

\* Axis arguments: every valid index, negative ones included, and one
\* value beyond the valid range on either side.
AxisIdx == (-NDIM - 1)..NDIM
OptAxisIdx == {None} \cup {Some(k) : k \in AxisIdx}

\* The axes a user is meant to pass: alpha_axis in 0..2 and beta_axis left
\* out or another axis in 0..2.
SensibleAxes ==
    {ab \in (0..(NDIM - 1)) \X ({None} \cup {Some(k) : k \in 0..(NDIM - 1)}) :
        ab[2] # Some(ab[1])}

A2kCall(alpha_axis, beta_axis, units, hv) ==
    [alpha_axis |-> alpha_axis, beta_axis |-> beta_axis, dalpha |-> 0,
     dbeta |-> 0, orientation |-> "horizontal", work_func |-> DefaultWorkFunc,
     units |-> units, hv |-> hv]

\* Calls with sensible axes, with and without an hv of the caller's.
A2kArgs == {A2kCall(ab[1], ab[2], 0, hv) : ab \in SensibleAxes, hv \in {None, Some(30)}}

\* Calls with any axes, in inverse Angstrom, and calls with sensible axes
\* in units of pi/1 and pi/2.  A call whose alpha_axis is out of range
\* ends at alpha = axes[alpha_axis], before beta_axis is looked at, so
\* these calls are made with beta_axis left out.
A2kAnyArgs ==
    {A2kCall(ab[1], ab[2], 0, None) :
        ab \in {x \in AxisIdx \X OptAxisIdx :
                   x[1] \in (-NDIM)..(NDIM - 1) \/ x[2] = None}}
    \cup {A2kCall(ab[1], ab[2], u, None) : ab \in SensibleAxes, u \in {1, 2}}

Dims == {DefaultDim}

(* ------------------------------ actions ------------------------------- *)

Apply(r, op, args) ==
    /\ D' = r.st.D
    /\ filename' = r.st.filename
    /\ dh' = r.st.dh
    /\ mw' = r.st.mw
    /\ last' = [op |-> op, args |-> args, outcome |-> r.outcome, msg |-> r.msg,
                ret |-> r.ret, calls |-> r.calls]

Init ==
    /\ D = InitState.D
    /\ filename = InitState.filename
    /\ dh = InitState.dh
    /\ mw = InitState.mw
    /\ last = [op |-> "__init__", args |-> None, outcome |-> "ok", msg |-> "",
               ret |-> None, calls |-> <<>>]

LoadData == \E f \in Files, hostOk \in BOOLEAN :
    Apply(load_data(State, f, hostOk), "load_data", <<f, hostOk>>)

Load == \E f \in Files, hostOk \in BOOLEAN :
    Apply(load(State, f, hostOk), "load", <<f, hostOk>>)

Open == \E f \in Files, hostOk \in BOOLEAN :
    Apply(open(State, f, hostOk), "open", <<f, hostOk>>)

A2k == \E p \in A2kArgs : Apply(a2k(State, p), "a2k", p)

MainPlotNormalize == \E dim \in Dims :
    /\ Len(mw.main_image.norm) < MaxNorm
    /\ Apply(main_plot_normalize_per_segment(State, dim),
             "main_plot_normalize_per_segment", dim)

CutPlotNormalize == \E dim \in Dims :
    /\ Len(mw.cut_image.norm) < MaxNorm
    /\ Apply(cut_plot_normalize_per_segment(State, dim),
             "cut_plot_normalize_per_segment", dim)

Normalize == \E dim \in Dims :
    Apply(normalize_per_segment(State, dim), "normalize_per_segment", dim)

\* The user rolls the axes in the host: the data handler rotates its axes
\* and counts the rotation, and the host redraws.
roll_axes(st) ==
    LET s1 == [st EXCEPT !.dh.axes = np_roll(@, -1),
                         !.dh.roll = (@ + 1) % NDIM,
                         !.mw.main_image = Image(st.dh.data.src, "main"),
                         !.mw.cut_image = Image(st.dh.data.src, "cut")]
    IN  Return(set_axes(s1), None, <<>>)

HostRollAxes == Apply(roll_axes(State), "host.roll_axes", None)

\* a2k with any axis arguments, the nonsensical ones included.
A2kAny == \E p \in A2kAnyArgs : Apply(a2k(State, p), "a2k", p)

Next ==
    \/ LoadData
    \/ Load
    \/ Open
    \/ A2k
    \/ MainPlotNormalize
    \/ CutPlotNormalize
    \/ Normalize
    \/ HostRollAxes

Spec == Init /\ [][Next]_vars

\* Loading, rolling and a2k alone, with a2k's arguments unrestricted.
NextAxes ==
    \/ LoadData
    \/ Load
    \/ Open
    \/ A2kAny
    \/ HostRollAxes

SpecAxes == Init /\ [][NextAxes]_vars

(* ------------------------------ claims -------------------------------- *)

LoadOps == {"load_data", "load", "open"}
NormalizeOps == {"main_plot_normalize_per_segment",
                 "cut_plot_normalize_per_segment", "normalize_per_segment"}
TransformOps == {"a2k"} \cup NormalizeOps

\* No load_data/load/open call has succeeded yet: filename is only ever
\* assigned as the last statement of a successful load.
NoLoadSucceeded == filename = MissingFilename

\* C1 as stated: while no load has succeeded, every transform method ends
\* in DatasetError with the fixed message, without having touched the host.
C1_AllTransformsGuarded ==
    (NoLoadSucceeded /\ last.op \in TransformOps)
        => /\ last.outcome = "DatasetError"
           /\ last.msg = message
           /\ last.calls = <<>>

\* C1 amended: a2k ends in DatasetError, with the fixed message and before
\* it reads or changes anything of the host, exactly when the attribute D
\* is absent; the three normalize methods never end in DatasetError.
C1_OnlyA2kGuarded ==
    /\ [][last'.op = "a2k" =>
            IF D = None
            THEN /\ last'.outcome = "DatasetError"
                 /\ last'.msg = message
                 /\ last'.calls = <<>>
                 /\ UNCHANGED <<D, filename, dh, mw>>
            ELSE last'.outcome # "DatasetError"]_vars
    /\ [](last.op \in NormalizeOps => last.outcome # "DatasetError")

\* a2k was refused for want of a dataset, after the main plot had already
\* been normalized without one.
C1_Witness ==
    /\ D = None
    /\ last.op = "a2k"
    /\ last.outcome = "DatasetError"
    /\ mw.main_image.norm # <<>>

\* C4 as stated: normalize_per_segment normalizes every slice along z and
\* finishes by storing the volume with set_data, its depth unchanged.
C4_NormalizeStores ==
    (D # None /\ last.op = "normalize_per_segment")
        => /\ last.outcome = "ok"
           /\ last.calls = <<"data_handler.get_data", "pp.normalize_per_segment",
                             "data_handler.set_data">>
           /\ Len(dh.data.slices) = Depth(dh.data.src)
           /\ \A z \in 1..Len(dh.data.slices) : dh.data.slices[z].norm # <<>>

\* C5: the two plot variants change nothing but the image shown in their
\* own plot: the main-plot variant replaces the main image by its
\* normalization, pushed with emit=False; the cut-plot variant replaces
\* the cut image, drawn with the host's lut.  D, filename, the stored
\* data and the axes stay as they were.
C5_PlotVariantsEphemeral ==
    [][/\ last'.op = "main_plot_normalize_per_segment" =>
            /\ UNCHANGED <<D, filename, dh>>
            /\ mw' = [mw EXCEPT !.main_image =
                          pp_normalize_per_segment(mw.main_image, last'.args)]
            /\ last'.calls[Len(last'.calls)] = "main_window.set_image(emit=False)"
       /\ last'.op = "cut_plot_normalize_per_segment" =>
            /\ UNCHANGED <<D, filename, dh>>
            /\ mw' = [mw EXCEPT !.cut_image =
                          pp_normalize_per_segment(mw.cut_image, last'.args),
                                !.cut_lut = mw.lut]]_vars

\* Both plots show a normalized image of a loaded dataset whose axes a2k
\* has converted.
C5_Witness ==
    /\ D # None
    /\ last.op = "cut_plot_normalize_per_segment"
    /\ mw.main_image.norm # <<>>
    /\ mw.cut_image.norm # <<>>
    /\ dh.axes # FetchAxes(State)

\* C6: from any state and for any file, load and open end exactly as
\* load_data does (state, outcome, return value, accesses); a successful
\* call of any of the three leaves D and the return value equal to the
\* file's dataset, filename equal to the file, and the host holding D.data
\* with the axes [zscale, yscale, xscale].
C6_Aliases ==
    /\ \A f \in Files, hostOk \in BOOLEAN :
          /\ load(State, f, hostOk) = load_data(State, f, hostOk)
          /\ open(State, f, hostOk) = load_data(State, f, hostOk)
    /\ (last.op \in LoadOps /\ last.outcome = "ok") =>
          LET d == Dataset(last.args[1])
          IN  /\ D = Some(d)
              /\ last.ret = Some(d)
              /\ filename = last.args[1]
              /\ dh.data = d.data
              /\ dh.original_axes[0] = d.zscale
              /\ dh.original_axes[1] = d.yscale
              /\ dh.original_axes[2] = d.xscale
              /\ dh.axes = dh.original_axes
    /\ (last.op \in LoadOps /\ last.outcome = "LoadError") =>
          last.calls = <<"dl.load_data">>

\* open() has loaded the second file over an earlier dataset.
C6_Witness ==
    /\ last.op = "open"
    /\ last.outcome = "ok"
    /\ filename = "b.ibw"
    /\ dh.data.src = "b.ibw"

\* C9 as stated: filename names the last successfully loaded file and D is
\* the dataset of exactly that file; before any successful load there is
\* the sentinel and no D.
C9_DatasetMatchesFilename ==
    IF filename = MissingFilename THEN D = None
    ELSE D = Some(Dataset(filename))

(* --------------------------- claims about a2k ------------------------- *)

LastA2kOk == last.op = "a2k" /\ last.outcome = "ok"

\* The un-converted coordinate array of logical axis i: the original axes
\* seen through the roll state.
OriginalAxis(i) == dh.original_axes[(i + dh.roll) % NDIM]

\* The axis arguments of the last a2k call, as the list [alpha_axis, beta_axis]
\* without None.
LastAxes ==
    {last.args.alpha_axis}
        \cup {last.args.beta_axis[j] : j \in 1..Len(last.args.beta_axis)}

\* The last a2k call had alpha_axis in 0..2 and beta_axis left out or
\* another axis in 0..2.
LastSensible == <<last.args.alpha_axis, last.args.beta_axis>> \in SensibleAxes

\* C2: after a successful a2k, every axis i in 0..2 that is neither
\* alpha_axis nor beta_axis of that call holds its un-converted array,
\* whatever earlier calls and rolls left there.
C2_UnaffectedAxesReset ==
    LastA2kOk =>
        \A i \in 0..(NDIM - 1) : i \notin LastAxes => dh.axes[i] = OriginalAxis(i)

\* a2k(alpha_axis=2) alone, on rolled axes: axes 0 and 1 hold un-converted
\* arrays.
C2_Witness ==
    /\ LastA2kOk
    /\ last.args.alpha_axis = 2
    /\ last.args.beta_axis = None
    /\ dh.roll # 0
    /\ dh.axes[0] = OriginalAxis(0)
    /\ dh.axes[1] = OriginalAxis(1)
    /\ dh.axes[2] # OriginalAxis(2)

\* What C3 says of one successful call: the axes the host refresh saw have
\* column 0 of KY at alpha_axis, row 0 of KX at beta_axis if it was given,
\* and with beta_axis left out every other axis is un-converted.
C3_Overwritten ==
    LET K == last.ret[1]
        al == PyIndex(last.args.alpha_axis)
    IN  /\ mw.shown_axes = dh.axes
        /\ last.calls[Len(last.calls)] = "main_window.set_axes"
        /\ dh.axes[al] = Column0(K.KY)
        /\ last.args.beta_axis # None =>
              dh.axes[PyIndex(last.args.beta_axis[1])] = Row0(K.KX)
        /\ last.args.beta_axis = None =>
              \A i \in 0..(NDIM - 1) : i # al => dh.axes[i] = OriginalAxis(i)

\* C3 as stated: this holds of every successful a2k call.
C3_EveryCallOverwrites == LastA2kOk => C3_Overwritten

\* C3 amended: it holds of every successful a2k call whose alpha_axis is in
\* 0..2 and whose beta_axis is left out or another axis in 0..2.
C3_SensibleCallOverwrites == (LastA2kOk /\ LastSensible) => C3_Overwritten

\* a2k(alpha_axis=0) with beta_axis left out has overwritten axis 0 only.
C3_Witness ==
    /\ LastA2kOk
    /\ last.args.alpha_axis = 0
    /\ last.args.beta_axis = None
    /\ dh.axes[0] = Column0(last.ret[1].KY)
    /\ dh.axes[1] = OriginalAxis(1)

\* The last a2k call had nonsensical axes: equal to each other or outside
\* 0..2.
LastNonsensical ==
    \/ last.args.beta_axis = Some(last.args.alpha_axis)
    \/ \E k \in LastAxes : k \notin 0..(NDIM - 1)

C8_UnitsRescale ==
    LastA2kOk =>
        LET p == last.args
            r0 == a2k(State, [p EXCEPT !.units = 0])
            lib == angle_to_k(
                      OriginalAxis(PyIndex(p.alpha_axis)),
                      IF p.beta_axis = None THEN ZeroArray
                      ELSE OriginalAxis(PyIndex(p.beta_axis[1])),
                      IF p.hv = None THEN D[1].hv ELSE p.hv[1],
                      p.dalpha, p.dbeta, p.orientation, p.work_func)
        IN  /\ r0.outcome = "ok"
            /\ r0.ret = Some(lib)
            /\ IF p.units = 0 THEN last.ret = Some(lib)
               ELSE /\ last.ret[1].KX = DivByPiOver(lib.KX, p.units)
                    /\ last.ret[1].KY = DivByPiOver(lib.KY, p.units)
                    /\ dh.axes[p.alpha_axis] =
                          Column0(DivByPiOver(lib.KY, p.units))
                    /\ p.beta_axis # None =>
                          dh.axes[p.beta_axis[1]] =
                              Row0(DivByPiOver(lib.KX, p.units))

\* a2k has converted two axes in units of pi/2.
C8_Witness ==
    /\ LastA2kOk
    /\ last.args.units = 2
    /\ last.args.beta_axis # None
    /\ dh.axes[last.args.alpha_axis] = Column0(last.ret[1].KY)

\* The state as it would be had a2k never been called since the load and
\* the rolls: the axes un-converted.
NeverConverted == [State EXCEPT !.dh.axes = [i \in 0..(NDIM - 1) |-> OriginalAxis(i)]]

\* C10: a2k leaves D, filename, original_axes and the roll state alone; a
\* successful call returns the meshes and leaves the axes that the same
\* call returns and leaves on the never-converted state, and calling it
\* again with the same arguments changes nothing and returns the same.
C10_HistoryIndependent ==
    /\ [][last'.op = "a2k" =>
            /\ UNCHANGED <<D, filename>>
            /\ dh'.original_axes = dh.original_axes
            /\ dh'.roll = dh.roll
            /\ dh'.data = dh.data]_vars
    /\ [](LastA2kOk =>
            LET once == a2k(NeverConverted, last.args)
                again == a2k(State, last.args)
            IN  /\ once.outcome = "ok"
                /\ once.ret = last.ret
                /\ once.st.dh = dh
                /\ again.outcome = "ok"
                /\ again.ret = last.ret
                /\ again.st = State)

\* a2k has succeeded on rolled axes of which one, not named in this call,
\* is un-converted although an earlier call may have converted it.
C10_Witness ==
    /\ LastA2kOk
    /\ dh.roll = 2
    /\ last.args.alpha_axis = 1
    /\ last.args.beta_axis = Some(0)
    /\ dh.axes[2] = OriginalAxis(2)

====
